---- MODULE Spec2Model ----
(***************************************************************************)
(* Clock-tree configuration of the STM32G4 (embassy-stm32/src/rcc/g4.rs):  *)
(* init(config) as a state machine over the RCC / PWR registers, the       *)
(* hardware status flags it polls, and the published frequency plan.       *)
(* Frequencies are exact integer Hz, as in the source.                     *)
(***************************************************************************)
EXTENDS Integers, Sequences, FiniteSets, TLC

(* ---------------------------------------------------------------------- *)
(* Program constants                                                      *)
(* ---------------------------------------------------------------------- *)
HSI_FREQ == 16000000
VcoInputMax == 16000000
VcoInputMin == 2660000
VcoOutputMax == 344000000
VcoOutputMin == 96000000
QFreq == 48000000
LowPowerMax == 2000000
PllM == 4
PllR == 2

(* ---------------------------------------------------------------------- *)
(* Bounds of the explored inputs                                          *)
(* ---------------------------------------------------------------------- *)
\* PLL targets k * 12 MHz for k in 0..MaxTargetStep
MaxTargetStep == 16

AHBPrescaler == {"NotDivided", "Div2", "Div4", "Div8", "Div16",
                 "Div64", "Div128", "Div256", "Div512"}
APBPrescaler == {"NotDivided", "Div2", "Div4", "Div8", "Div16"}

\* External oscillator frequencies tried, as system clock and as PLL input:
\* low-power capable (1, 2 MHz), just above the low-power limit, the VCO
\* input limits (10.64 MHz / 4 = 2.66 MHz, 64 MHz / 4 = 16 MHz) and their
\* neighbours, a common 24 MHz crystal, and 11.52 MHz, whose vco_input of
\* 2.88 MHz gives the largest multiplier of any success (100).
HseFreqs == {1000000, 2000000, 2000001, 10639999, 10640000, 11520000,
             24000000, 64000000, 64000004}

\* PLL targets: the multiples of 12 MHz, the spec's 1 MHz example, and
\* targets whose doubled value is not a multiple of the VCO input.
Targets == {k * 12000000 : k \in 0..MaxTargetStep}
             \cup {1000000, 47999999, 49000000, 171999999, 172000001}

PLLSource == {[kind |-> "HSI16", freq |-> 0]}
               \cup {[kind |-> "HSE", freq |-> f] : f \in HseFreqs}

NoSource == [kind |-> "HSI16", freq |-> 0]

\* PLL targets with bit 31 set, given by their low 31 bits: 2^31 Hz and
\* 2^31 Hz + 48 MHz.
WideTargets == {0, 48000000}

\* ClockSrc: HSI16 | HSE(freq) | PLL(source, target). A PLL target is the
\* u32 with bit 31 = wide and low 31 bits = freq (the model's integers stop
\* short of 2^31).
ClockSrc == {[kind |-> "HSI16", freq |-> 0, source |-> NoSource, wide |-> FALSE]}
              \cup {[kind |-> "HSE", freq |-> f, source |-> NoSource, wide |-> FALSE] :
                        f \in HseFreqs}
              \cup {[kind |-> "PLL", freq |-> t, source |-> s, wide |-> FALSE] :
                        t \in Targets, s \in PLLSource}
              \cup {[kind |-> "PLL", freq |-> t, source |-> s, wide |-> TRUE] :
                        t \in WideTargets, s \in PLLSource}

Config == [mux : ClockSrc, ahb_pre : AHBPrescaler, apb1_pre : APBPrescaler,
           apb2_pre : APBPrescaler, low_power_run : BOOLEAN]

(* ---------------------------------------------------------------------- *)
(* Hardware code tables                                                   *)
(* ---------------------------------------------------------------------- *)
APBCode(p) ==
    CASE p = "NotDivided" -> 1
      [] p = "Div2" -> 4
      [] p = "Div4" -> 5
      [] p = "Div8" -> 6
      [] p = "Div16" -> 7

AHBCode(p) ==
    CASE p = "NotDivided" -> 1
      [] p = "Div2" -> 8
      [] p = "Div4" -> 9
      [] p = "Div8" -> 10
      [] p = "Div16" -> 11
      [] p = "Div64" -> 12
      [] p = "Div128" -> 13
      [] p = "Div256" -> 14
      [] p = "Div512" -> 15

\* pllq_flag with the divisor truncated into the field instead of the panic
pllq_flag_lenient(pllq) == ((pllq \div 2) - 1) % 4

\* pllr_flag / pllq_flag: -1 stands for the panic arm
pllr_flag(pllr) ==
    CASE pllr = 2 -> 0
      [] pllr = 4 -> 1
      [] pllr = 6 -> 2
      [] pllr = 8 -> 3
      [] OTHER -> -1

pllq_flag(pllq) ==
    CASE pllq = 2 -> 0
      [] pllq = 4 -> 1
      [] pllq = 6 -> 2
      [] pllq = 8 -> 3
      [] OTHER -> -1

\* 1 << n
Shl1(n) == 2 ^ n

(* ---------------------------------------------------------------------- *)
(* PLL solver (the arithmetic of the ClockSrc::PLL arm)                   *)
(* ---------------------------------------------------------------------- *)
\* target_freq.0 * pllr in u32 with pllr = 2: the product exceeds 32 bits
\* exactly when bit 31 of the target is set; the wrapped product is twice the
\* low 31 bits, which is what Plln divides.
MulOverflows(mux) == mux.wide

PllInput(source) == IF source.kind = "HSE" THEN source.freq ELSE 16000000

VcoInput(source) == PllInput(source) \div PllM

Plln(source, target) == (target * PllR) \div VcoInput(source)

VcoOutput(source, target) == VcoInput(source) * Plln(source, target)

\* r_output taken before the division by R
ROutput_undivided(source, target) == VcoOutput(source, target)

ROutput(source, target) == VcoOutput(source, target) \div PllR

Pllq(source, target) == VcoOutput(source, target) \div QFreq

\* the checks without the upper limit on vco_output
SolverError_nohigh(source, target) ==
    IF VcoInput(source) > VcoInputMax THEN "InvalidVcoInput"
    ELSE IF VcoInput(source) < VcoInputMin THEN "InvalidVcoInput"
    ELSE IF VcoOutput(source, target) < VcoOutputMin THEN "InvalidVcoOutput"
    ELSE IF VcoOutput(source, target) % QFreq # 0 THEN "Unachievable48MHzTap"
    ELSE "none"

\* the checks without the lower limit on vco_output
SolverError_nolow(source, target) ==
    IF VcoInput(source) > VcoInputMax THEN "InvalidVcoInput"
    ELSE IF VcoInput(source) < VcoInputMin THEN "InvalidVcoInput"
    ELSE IF VcoOutput(source, target) > VcoOutputMax THEN "InvalidVcoOutput"
    ELSE IF VcoOutput(source, target) % QFreq # 0 THEN "Unachievable48MHzTap"
    ELSE "none"

\* The panics of the arm in program order; "none" when the arm reaches the
\* PLL configuration write.
SolverError(source, target) ==
    IF VcoInput(source) > VcoInputMax THEN "InvalidVcoInput"
    ELSE IF VcoInput(source) < VcoInputMin THEN "InvalidVcoInput"
    ELSE IF VcoOutput(source, target) > VcoOutputMax THEN "InvalidVcoOutput"
    ELSE IF VcoOutput(source, target) < VcoOutputMin THEN "InvalidVcoOutput"
    ELSE IF VcoOutput(source, target) % QFreq # 0 THEN "Unachievable48MHzTap"
    ELSE "none"

(* ---------------------------------------------------------------------- *)
(* Bus frequency calculation                                              *)
(* ---------------------------------------------------------------------- *)
AhbFreq(pre, sys) ==
    IF pre = "NotDivided" THEN sys
    ELSE sys \div Shl1(AHBCode(pre) - 7)

\* ApbFreq with the shift taken as for the AHB table (code - 4)
ApbFreq_shift(pre, ahb) ==
    IF pre = "NotDivided" THEN <<ahb, ahb>>
    ELSE LET freq == ahb \div Shl1(APBCode(pre) - 4)
         IN <<freq, freq * 2>>

\* <<peripheral, timer>>
ApbFreq(pre, ahb) ==
    IF pre = "NotDivided" THEN <<ahb, ahb>>
    ELSE LET freq == ahb \div Shl1(APBCode(pre) - 3)
         IN <<freq, freq * 2>>

MakeClocks(cfg, sys) ==
    LET ahb == AhbFreq(cfg.ahb_pre, sys)
        a1 == ApbFreq(cfg.apb1_pre, ahb)
        a2 == ApbFreq(cfg.apb2_pre, ahb)
    IN [sys |-> sys, ahb1 |-> ahb, ahb2 |-> ahb,
        apb1 |-> a1[1], apb1_tim |-> a1[2],
        apb2 |-> a2[1], apb2_tim |-> a2[2]]

NoClocks == [sys |-> 0, ahb1 |-> 0, ahb2 |-> 0, apb1 |-> 0, apb1_tim |-> 0,
             apb2 |-> 0, apb2_tim |-> 0]

(* ---------------------------------------------------------------------- *)
(* State                                                                  *)
(* ---------------------------------------------------------------------- *)
VARIABLES
    config,     \* the Config passed to init
    pc,         \* position of init
    err,        \* panic raised, "none" while running
    cr,         \* RCC.cr enable bits as last written
    rdy,        \* RCC.cr ready flags, driven by the hardware
    pllcfgr,    \* RCC.pllcfgr
    clk48sel,   \* RCC.ccipr.clk48sel
    cfgr,       \* RCC.cfgr sw / hpre / ppre1 / ppre2 as last written
    sws,        \* RCC.cfgr.sws, driven by the hardware
    lpr,        \* PWR.cr1.lpr
    sys_clk,    \* local sys_clk
    sw,         \* local sw
    bus,        \* locals ahb_freq, apb1_freq, ... as a Clocks value
    clocks,     \* the frequency plan stored by set_freqs
    npub,       \* number of set_freqs calls
    log         \* register writes and poll exits, in program order

vars == <<config, pc, err, cr, rdy, pllcfgr, clk48sel, cfgr, sws, lpr,
          sys_clk, sw, bus, clocks, npub, log>>

hwvars == <<cr, rdy, pllcfgr, clk48sel, cfgr, sws, lpr>>

CrZero == [hsion |-> FALSE, hseon |-> FALSE, pllon |-> FALSE]

PllcfgrZero == [pllr |-> 0, pllren |-> FALSE, pllq |-> 0, pllqen |-> FALSE,
                plln |-> 0, pllm |-> 0, pllsrc |-> 0]

\* Register values out of reset.
PllcfgrReset == [PllcfgrZero EXCEPT !.plln = 16]

\* What init finds when it is called: the chip out of reset (HSI16 on, ready
\* and selected), or left by a boot loader running from the external
\* oscillator with HSI16 switched off.
BootStates ==
    {[cr |-> [hsion |-> TRUE, hseon |-> FALSE, pllon |-> FALSE],
      rdy |-> [hsi |-> TRUE, hse |-> FALSE, pll |-> FALSE], sw |-> 1],
     [cr |-> [hsion |-> FALSE, hseon |-> TRUE, pllon |-> FALSE],
      rdy |-> [hsi |-> FALSE, hse |-> TRUE, pll |-> FALSE], sw |-> 2]}

Init ==
    /\ config \in Config
    /\ pc = "start"
    /\ err = "none"
    /\ \E b \in BootStates :
          /\ cr = b.cr
          /\ rdy = b.rdy
          /\ cfgr = [sw |-> b.sw, hpre |-> 0, ppre1 |-> 0, ppre2 |-> 0]
          /\ sws = b.sw
    /\ pllcfgr = PllcfgrReset
    /\ clk48sel = 0
    /\ lpr = FALSE
    /\ sys_clk = 0
    /\ sw = 0
    /\ bus = NoClocks
    /\ clocks = NoClocks
    /\ npub = 0
    /\ log = <<>>

IsPllHse == config.mux.kind = "PLL" /\ config.mux.source.kind = "HSE"

Panic(kind) ==
    /\ pc' = "failed"
    /\ err' = kind

(* ---------------------------------------------------------------------- *)
(* init: ClockSrc::HSI16 arm                                              *)
(* ---------------------------------------------------------------------- *)
EnableHsi ==
    /\ pc = "start"
    /\ config.mux.kind = "HSI16"
    /\ cr' = [CrZero EXCEPT !.hsion = TRUE]
    /\ log' = Append(log, "w:cr.hsion")
    /\ pc' = "wait_hsi"
    /\ UNCHANGED <<config, err, rdy, pllcfgr, clk48sel, cfgr, sws, lpr,
                   sys_clk, sw, bus, clocks, npub>>

WaitHsi ==
    /\ pc = "wait_hsi"
    /\ rdy.hsi
    /\ log' = Append(log, "r:hsirdy")
    /\ sys_clk' = HSI_FREQ
    /\ sw' = 1
    /\ pc' = "switch"
    /\ UNCHANGED <<config, err, hwvars, bus, clocks, npub>>

(* ---------------------------------------------------------------------- *)
(* init: ClockSrc::HSE arm                                                *)
(* ---------------------------------------------------------------------- *)
EnableHse ==
    /\ pc = "start"
    /\ config.mux.kind = "HSE"
    /\ cr' = [CrZero EXCEPT !.hseon = TRUE]
    /\ log' = Append(log, "w:cr.hseon")
    /\ pc' = "wait_hse"
    /\ UNCHANGED <<config, err, rdy, pllcfgr, clk48sel, cfgr, sws, lpr,
                   sys_clk, sw, bus, clocks, npub>>

\* the HSE arm returning the HSI16 source-select code
WaitHse_hsicode ==
    /\ pc = "wait_hse"
    /\ rdy.hse
    /\ log' = Append(log, "r:hserdy")
    /\ sys_clk' = config.mux.freq
    /\ sw' = 1
    /\ pc' = "switch"
    /\ UNCHANGED <<config, err, hwvars, bus, clocks, npub>>

WaitHse ==
    /\ pc = "wait_hse"
    /\ rdy.hse
    /\ log' = Append(log, "r:hserdy")
    /\ sys_clk' = config.mux.freq
    /\ sw' = 2
    /\ pc' = "switch"
    /\ UNCHANGED <<config, err, hwvars, bus, clocks, npub>>

(* ---------------------------------------------------------------------- *)
(* init: ClockSrc::PLL arm                                                *)
(* ---------------------------------------------------------------------- *)
\* the range and divisibility checks on vco_input and vco_output. When
\* target_freq.0 * pllr overflows, a build with overflow checks panics there
\* and a build without them goes on with the wrapped product.
PllSolve ==
    /\ pc = "start"
    /\ config.mux.kind = "PLL"
    /\ LET e == SolverError(config.mux.source, config.mux.freq)
       IN IF e = "InvalidVcoInput"
          THEN Panic(e)
          ELSE \/ /\ MulOverflows(config.mux)
                  /\ Panic("ArithmeticOverflow")
               \/ IF e # "none"
                  THEN Panic(e)
                  ELSE /\ pc' = "pll_cfg"
                       /\ err' = err
    /\ UNCHANGED <<config, hwvars, sys_clk, sw, bus, clocks, npub, log>>

\* the closure with the multiplier cut to 6 bits
PllcfgrValue_plln6(source, target) ==
    [pllr |-> pllr_flag(PllR), pllren |-> TRUE,
     pllq |-> pllq_flag(Pllq(source, target)), pllqen |-> TRUE,
     plln |-> Plln(source, target) % 64,
     pllm |-> PllM - 1,
     pllsrc |-> IF source.kind = "HSE" THEN 3 ELSE 2]

\* the value built by the closure passed to RCC.pllcfgr().write
PllcfgrValue(source, target) ==
    [pllr |-> pllr_flag(PllR), pllren |-> TRUE,
     pllq |-> pllq_flag(Pllq(source, target)), pllqen |-> TRUE,
     plln |-> Plln(source, target) % 128,
     pllm |-> PllM - 1,
     pllsrc |-> IF source.kind = "HSE" THEN 3 ELSE 2]

\* RCC.pllcfgr().write: the closure runs first and may panic in pllr_flag,
\* pllq_flag or the conversion of plln; the register is written afterwards.
PllConfigure ==
    /\ pc = "pll_cfg"
    /\ LET source == config.mux.source
           target == config.mux.freq
       IN IF pllr_flag(PllR) = -1 \/ pllq_flag(Pllq(source, target)) = -1
          THEN /\ Panic("InvalidDivisorCode")
               /\ UNCHANGED <<pllcfgr, log>>
          ELSE IF Plln(source, target) > 255
          THEN /\ Panic("TryFromIntError")
               /\ UNCHANGED <<pllcfgr, log>>
          ELSE /\ pllcfgr' = PllcfgrValue(source, target)
               /\ log' = Append(log, "w:pllcfgr")
               /\ pc' = IF source.kind = "HSE" THEN "pll_hse" ELSE "pll_on"
               /\ err' = err
    /\ UNCHANGED <<config, cr, rdy, clk48sel, cfgr, sws, lpr,
                   sys_clk, sw, bus, clocks, npub>>

PllStartHse ==
    /\ pc = "pll_hse"
    /\ cr' = [CrZero EXCEPT !.hseon = TRUE]
    /\ log' = Append(log, "w:cr.hseon")
    /\ pc' = "pll_wait_hse"
    /\ UNCHANGED <<config, err, rdy, pllcfgr, clk48sel, cfgr, sws, lpr,
                   sys_clk, sw, bus, clocks, npub>>

PllWaitHse ==
    /\ pc = "pll_wait_hse"
    /\ rdy.hse
    /\ log' = Append(log, "r:hserdy")
    /\ pc' = "pll_on"
    /\ UNCHANGED <<config, err, hwvars, sys_clk, sw, bus, clocks, npub>>

\* the value built by the closure passed to the "Start PLL" RCC.cr().write
PllOnValue(source) ==
    [CrZero EXCEPT !.pllon = TRUE, !.hseon = (source.kind = "HSE")]

\* the PLL started with both polls after it left out
PllOn_nowait ==
    /\ pc = "pll_on"
    /\ cr' = PllOnValue(config.mux.source)
    /\ log' = Append(log, "w:cr.pllon")
    /\ pc' = "clk48"
    /\ UNCHANGED <<config, err, rdy, pllcfgr, clk48sel, cfgr, sws, lpr,
                   sys_clk, sw, bus, clocks, npub>>

PllOn ==
    /\ pc = "pll_on"
    /\ cr' = PllOnValue(config.mux.source)
    /\ log' = Append(log, "w:cr.pllon")
    /\ pc' = IF IsPllHse THEN "pll_wait_hse2" ELSE "pll_wait"
    /\ UNCHANGED <<config, err, rdy, pllcfgr, clk48sel, cfgr, sws, lpr,
                   sys_clk, sw, bus, clocks, npub>>

PllWaitHse2 ==
    /\ pc = "pll_wait_hse2"
    /\ rdy.hse
    /\ log' = Append(log, "r:hserdy")
    /\ pc' = "pll_wait"
    /\ UNCHANGED <<config, err, hwvars, sys_clk, sw, bus, clocks, npub>>

\* the lock poll reading the HSI16 ready flag instead of the PLL's
PllWait_hsirdy ==
    /\ pc = "pll_wait"
    /\ rdy.hsi
    /\ log' = Append(log, "r:pllrdy")
    /\ pc' = "clk48"
    /\ UNCHANGED <<config, err, hwvars, sys_clk, sw, bus, clocks, npub>>

PllWait ==
    /\ pc = "pll_wait"
    /\ rdy.pll
    /\ log' = Append(log, "r:pllrdy")
    /\ pc' = "clk48"
    /\ UNCHANGED <<config, err, hwvars, sys_clk, sw, bus, clocks, npub>>

SelectClk48 ==
    /\ pc = "clk48"
    /\ clk48sel' = 2
    /\ log' = Append(log, "w:ccipr")
    /\ sys_clk' = ROutput(config.mux.source, config.mux.freq)
    /\ sw' = 3
    /\ pc' = "switch"
    /\ UNCHANGED <<config, err, cr, rdy, pllcfgr, cfgr, sws, lpr,
                   bus, clocks, npub>>

(* ---------------------------------------------------------------------- *)
(* init: clock switch, bus frequencies, low-power run, publication        *)
(* ---------------------------------------------------------------------- *)
CfgrValue(cfg, s) ==
    [sw |-> s, hpre |-> AHBCode(cfg.ahb_pre),
     ppre1 |-> APBCode(cfg.apb1_pre), ppre2 |-> APBCode(cfg.apb2_pre)]

Switch ==
    /\ pc = "switch"
    /\ cfgr' = CfgrValue(config, sw)
    /\ log' = Append(log, "w:cfgr")
    /\ pc' = "wait_sws"
    /\ UNCHANGED <<config, err, cr, rdy, pllcfgr, clk48sel, sws, lpr,
                   sys_clk, sw, bus, clocks, npub>>

\* the poll left without looking at sws
WaitSws_nopoll ==
    /\ pc = "wait_sws"
    /\ log' = Append(log, "r:sws")
    /\ bus' = MakeClocks(config, sys_clk)
    /\ pc' = "low_power"
    /\ UNCHANGED <<config, err, hwvars, sys_clk, sw, clocks, npub>>

\* the plan stored as soon as it is computed, ahead of the low-power step
WaitSws_publish ==
    /\ pc = "wait_sws"
    /\ sws = sw
    /\ log' = Append(log, "r:sws")
    /\ bus' = MakeClocks(config, sys_clk)
    /\ clocks' = MakeClocks(config, sys_clk)
    /\ npub' = npub + 1
    /\ pc' = "low_power"
    /\ UNCHANGED <<config, err, hwvars, sys_clk, sw>>

\* leaves the poll and computes ahb_freq, apb1_freq, apb2_freq
WaitSws ==
    /\ pc = "wait_sws"
    /\ sws = sw
    /\ log' = Append(log, "r:sws")
    /\ bus' = MakeClocks(config, sys_clk)
    /\ pc' = "low_power"
    /\ UNCHANGED <<config, err, hwvars, sys_clk, sw, clocks, npub>>

\* the frequency not checked at all
LowPowerAllowed_any(f) == TRUE

\* the limit taken as exclusive
LowPowerAllowed_strict(f) == f < LowPowerMax

LowPowerAllowed(f) == f <= LowPowerMax

LowPowerRun ==
    /\ pc = "low_power"
    /\ IF config.low_power_run
       THEN IF LowPowerAllowed(sys_clk)
            THEN /\ lpr' = TRUE
                 /\ log' = Append(log, "w:pwr.lpr")
                 /\ pc' = "publish"
                 /\ err' = err
            ELSE /\ Panic("LowPowerFrequencyExceeded")
                 /\ UNCHANGED <<lpr, log>>
       ELSE /\ pc' = "publish"
            /\ UNCHANGED <<err, lpr, log>>
    /\ UNCHANGED <<config, cr, rdy, pllcfgr, clk48sel, cfgr, sws,
                   sys_clk, sw, bus, clocks, npub>>

SetFreqs ==
    /\ pc = "publish"
    /\ clocks' = bus
    /\ npub' = npub + 1
    /\ log' = Append(log, "set_freqs")
    /\ pc' = "done"
    /\ UNCHANGED <<config, err, hwvars, sys_clk, sw, bus>>

(* ---------------------------------------------------------------------- *)
(* Hardware: the status flags read by the polls                           *)
(* ---------------------------------------------------------------------- *)
swvars == <<config, pc, err, sys_clk, sw, bus, clocks, npub, log>>

\* an enabled oscillator becomes ready; a disabled one stops being ready
HsiReady ==
    /\ rdy.hsi # cr.hsion
    /\ rdy' = [rdy EXCEPT !.hsi = cr.hsion]
    /\ UNCHANGED <<swvars, cr, pllcfgr, clk48sel, cfgr, sws, lpr>>

HseReady ==
    /\ rdy.hse # cr.hseon
    /\ rdy' = [rdy EXCEPT !.hse = cr.hseon]
    /\ UNCHANGED <<swvars, cr, pllcfgr, clk48sel, cfgr, sws, lpr>>

PllReady ==
    /\ rdy.pll # cr.pllon
    /\ rdy' = [rdy EXCEPT !.pll = cr.pllon]
    /\ UNCHANGED <<swvars, cr, pllcfgr, clk48sel, cfgr, sws, lpr>>

\* the mux reports the source selected in cfgr.sw
Switched ==
    /\ sws # cfgr.sw
    /\ sws' = cfgr.sw
    /\ UNCHANGED <<swvars, cr, rdy, pllcfgr, clk48sel, cfgr, lpr>>

Next ==
    \/ EnableHsi \/ WaitHsi
    \/ EnableHse \/ WaitHse
    \/ PllSolve \/ PllConfigure \/ PllStartHse \/ PllWaitHse
    \/ PllOn \/ PllWaitHse2 \/ PllWait \/ SelectClk48
    \/ Switch \/ WaitSws \/ LowPowerRun \/ SetFreqs
    \/ HsiReady \/ HseReady \/ PllReady \/ Switched

Spec == Init /\ [][Next]_vars

\* the steps of init itself
InitStep ==
    \/ EnableHsi \/ WaitHsi
    \/ EnableHse \/ WaitHse
    \/ PllSolve \/ PllConfigure \/ PllStartHse \/ PllWaitHse
    \/ PllOn \/ PllWaitHse2 \/ PllWait \/ SelectClk48
    \/ Switch \/ WaitSws \/ LowPowerRun \/ SetFreqs

\* The processor keeps executing init (it runs alone, before any task or
\* interrupt), and responding hardware eventually raises each flag whose
\* enable or commit has been written.
FairSpec ==
    /\ Spec
    /\ WF_vars(InitStep)
    /\ WF_vars(HsiReady)
    /\ WF_vars(HseReady)
    /\ WF_vars(PllReady)
    /\ WF_vars(Switched)

TypeOK ==
    /\ config \in Config
    /\ pc \in {"start", "wait_hsi", "wait_hse", "pll_cfg", "pll_hse",
               "pll_wait_hse", "pll_on", "pll_wait_hse2", "pll_wait", "clk48",
               "switch", "wait_sws", "low_power", "publish", "done", "failed"}
    /\ err \in {"none", "InvalidVcoInput", "InvalidVcoOutput",
                "Unachievable48MHzTap", "InvalidDivisorCode",
                "TryFromIntError", "ArithmeticOverflow",
                "LowPowerFrequencyExceeded"}
    /\ sw \in 0..3
    /\ sws \in 0..3
    /\ npub \in 0..1

(* ---------------------------------------------------------------------- *)
(* Vocabulary of the properties                                           *)
(* ---------------------------------------------------------------------- *)
WriteEvents == {"w:cr.hsion", "w:cr.hseon", "w:cr.pllon", "w:pllcfgr",
                "w:ccipr", "w:cfgr", "w:pwr.lpr"}

Idx(e) == {i \in 1..Len(log) : log[i] = e}

Logged(e) == Idx(e) # {}

\* every occurrence of b is preceded by an occurrence of a
Before(a, b) == \A j \in Idx(b) : \E i \in Idx(a) : i < j

Failed == pc = "failed"
Done == pc = "done"

SolverErrors == {"InvalidVcoInput", "InvalidVcoOutput", "Unachievable48MHzTap",
                 "InvalidDivisorCode"}

\* the bus frequencies have been computed (the switch has been confirmed)
BusComputed == Logged("r:sws")

\* divisor each prescaler variant stands for
NominalDiv(p) ==
    CASE p = "NotDivided" -> 1
      [] p = "Div2" -> 2
      [] p = "Div4" -> 4
      [] p = "Div8" -> 8
      [] p = "Div16" -> 16
      [] p = "Div64" -> 64
      [] p = "Div128" -> 128
      [] p = "Div256" -> 256
      [] p = "Div512" -> 512

(* ---------------------------------------------------------------------- *)
(* C1 - validate-then-commit                                              *)
(* ---------------------------------------------------------------------- *)
\* C1: whenever init has ended in a fatal failure, of whichever kind, it has
\* written no hardware register before raising it.
C1_NoWriteBeforeFailure ==
    Failed => \A i \in 1..Len(log) : log[i] \notin WriteEvents

\* The four failures raised by the PLL arm do precede every write.
SolverFailuresWriteNothing ==
    (Failed /\ err \in SolverErrors) => log = <<>>

(* ---------------------------------------------------------------------- *)
(* C2 - AHB frequency                                                     *)
(* ---------------------------------------------------------------------- *)
\* C2: the AHB frequency computed by init is the system frequency divided
\* (integer division) by the nominal divisor of the AHB prescaler variant
\* (1 for NotDivided).
C2_AhbNominal ==
    BusComputed => bus.ahb1 = sys_clk \div NominalDiv(config.ahb_pre)

\* What does hold: the variants up to Div16 divide by their nominal divisor.
AhbNominalUpToDiv16 ==
    (BusComputed /\ config.ahb_pre \in {"NotDivided", "Div2", "Div4", "Div8", "Div16"})
        => bus.ahb1 = sys_clk \div NominalDiv(config.ahb_pre)

(* ---------------------------------------------------------------------- *)
(* C3 - APB peripheral and timer frequencies                              *)
(* ---------------------------------------------------------------------- *)
ApbLaw(pre, ahb, periph, tim) ==
    IF pre = "NotDivided"
    THEN periph = ahb /\ tim = ahb
    ELSE periph = ahb \div NominalDiv(pre) /\ tim = 2 * periph

IsNonPllExample ==
    /\ config.mux.kind = "HSI16"
    /\ config.ahb_pre = "Div2"
    /\ config.apb1_pre = "Div4"

\* C3: for each APB domain, NotDivided yields (ahb, ahb) and any other
\* variant yields peripheral = ahb / nominal divisor and timer = 2 x
\* peripheral; Internal with ahb_pre = Div2, apb1_pre = Div4 publishes
\* AHB = 8 MHz, APB1 = 2 MHz, APB1 timer = 4 MHz.
C3_ApbLaw ==
    /\ BusComputed =>
          /\ ApbLaw(config.apb1_pre, bus.ahb1, bus.apb1, bus.apb1_tim)
          /\ ApbLaw(config.apb2_pre, bus.ahb1, bus.apb2, bus.apb2_tim)
    /\ (Done /\ IsNonPllExample) =>
          /\ clocks.ahb1 = 8000000
          /\ clocks.apb1 = 2000000
          /\ clocks.apb1_tim = 4000000

C3_Witness ==
    /\ Done
    /\ IsNonPllExample
    /\ config.apb2_pre = "Div16"
    /\ clocks.apb1_tim = 4000000
    /\ clocks.apb2 = 500000
    /\ clocks.apb2_tim = 1000000

(* ---------------------------------------------------------------------- *)
(* C4 - solver validity                                                   *)
(* ---------------------------------------------------------------------- *)
IsPll == config.mux.kind = "PLL"

\* the solver has succeeded: the PLL configuration register has been written
SolverSucceeded == IsPll /\ Logged("w:pllcfgr")

\* vco_input recomputed from the configured PLL input
CfgVcoInput == PllInput(config.mux.source) \div 4

\* vco_output recomputed from the multiplier programmed into pllcfgr
RegVcoOutput == CfgVcoInput * pllcfgr.plln

\* C4: on solver success vco_input = input / 4 lies in [2.66 MHz, 16 MHz],
\* vco_output = vco_input x N (N the programmed multiplier) lies in
\* [96 MHz, 344 MHz], and the system frequency returned and published is
\* vco_output / 2.
C4_SolverValid ==
    SolverSucceeded =>
        /\ CfgVcoInput >= 2660000 /\ CfgVcoInput <= 16000000
        /\ RegVcoOutput >= 96000000 /\ RegVcoOutput <= 344000000
        /\ (sw = 3 => sys_clk = RegVcoOutput \div 2)
        /\ (npub > 0 => clocks.sys = RegVcoOutput \div 2)

C4_Witness ==
    /\ SolverSucceeded
    /\ Done
    /\ config.mux.source.kind = "HSE"
    /\ config.mux.freq = 49000000
    /\ clocks.sys = 48000000

(* ---------------------------------------------------------------------- *)
(* C5 - the 48 MHz tap and the divisor codes                              *)
(* ---------------------------------------------------------------------- *)
\* the PLL arm got past the range checks on vco_input
VcoInputValid ==
    /\ IsPll
    /\ CfgVcoInput >= VcoInputMin
    /\ CfgVcoInput <= VcoInputMax

CfgVcoOutput == CfgVcoInput * ((config.mux.freq * 2) \div CfgVcoInput)

CfgQ == CfgVcoOutput \div 48000000

\* C5: in the PLL case the solver fails whenever vco_output is not a
\* multiple of 48 MHz, and fails without writing the PLL configuration
\* whenever Q = vco_output / 48 MHz is not in {2,4,6,8}; on success
\* vco_output = Q x 48 MHz and the R and Q fields written are the 2-bit
\* codes of R = 2 and Q.
C5_TapAndCodes ==
    /\ (VcoInputValid /\ pc # "start" /\ CfgVcoOutput % 48000000 # 0)
          => Failed /\ err # "none" /\ ~Logged("w:pllcfgr")
    /\ (VcoInputValid /\ pc \notin {"start", "pll_cfg"} /\ CfgQ \notin {2, 4, 6, 8})
          => Failed /\ err # "none" /\ ~Logged("w:pllcfgr")
    /\ (VcoInputValid /\ CfgQ \notin {2, 4, 6, 8}) => pllcfgr = PllcfgrReset
    /\ SolverSucceeded =>
          /\ CfgQ \in {2, 4, 6, 8}
          /\ CfgVcoOutput = CfgQ * 48000000
          /\ pllcfgr.pllr \in 0..3 /\ 2 * (pllcfgr.pllr + 1) = 2
          /\ pllcfgr.pllq \in 0..3 /\ 2 * (pllcfgr.pllq + 1) = CfgQ

C5_Witness ==
    /\ SolverSucceeded
    /\ CfgQ = 4
    /\ pllcfgr.pllq = 1
    /\ pllcfgr.pllr = 0
    /\ pllcfgr.pllqen /\ pllcfgr.pllren

(* ---------------------------------------------------------------------- *)
(* C6 - low-power gate                                                    *)
(* ---------------------------------------------------------------------- *)
\* init has gone through the low-power step
PastLowPower == pc \in {"publish", "done"} \/ (Failed /\ BusComputed)

\* C6: with low_power_run set, a system frequency <= 2 MHz passes the gate
\* with the low-power-run bit set; one > 2 MHz ends in
\* LowPowerFrequencyExceeded with the bit never set and nothing published.
\* Without low_power_run the bit is never written.
C6_LowPowerGate ==
    /\ (config.low_power_run /\ PastLowPower /\ sys_clk <= 2000000)
          => pc \in {"publish", "done"} /\ lpr /\ Logged("w:pwr.lpr")
    /\ (config.low_power_run /\ Done) => lpr /\ sys_clk <= 2000000
    /\ (config.low_power_run /\ PastLowPower /\ sys_clk > 2000000)
          => Failed /\ err = "LowPowerFrequencyExceeded"
    /\ (config.low_power_run /\ sw # 0 /\ sys_clk > 2000000)
          => ~lpr /\ ~Logged("w:pwr.lpr") /\ npub = 0 /\ clocks = NoClocks
    /\ ~config.low_power_run => ~lpr /\ ~Logged("w:pwr.lpr")

\* the limit itself passes
C6_Witness ==
    /\ config.low_power_run
    /\ Done
    /\ sys_clk = 2000000
    /\ lpr

(* ---------------------------------------------------------------------- *)
(* C7 - clock switch ordering                                             *)
(* ---------------------------------------------------------------------- *)
\* C7: the source-select code and the three prescaler codes are committed
\* to cfgr in one write; the low-power-run bit is written and the plan is
\* published only after sws has been observed equal to the requested code,
\* and neither has happened while sws differs from it.
C7_SwitchOrdering ==
    /\ Cardinality(Idx("w:cfgr")) <= 1
    /\ Logged("w:cfgr") =>
          /\ cfgr.sw = sw
          /\ cfgr.hpre = AHBCode(config.ahb_pre)
          /\ cfgr.ppre1 = APBCode(config.apb1_pre)
          /\ cfgr.ppre2 = APBCode(config.apb2_pre)
    /\ Before("w:cfgr", "r:sws")
    /\ Before("r:sws", "w:pwr.lpr")
    /\ Before("r:sws", "set_freqs")
    /\ (lpr \/ npub > 0) => Logged("r:sws")
    /\ sws # sw => ~lpr /\ npub = 0 /\ clocks = NoClocks

\* init waits in the poll with sws still reporting the old source
C7_Waiting ==
    /\ pc = "wait_sws"
    /\ sws # sw

C7_Witness ==
    /\ Done
    /\ config.low_power_run
    /\ lpr
    /\ sws = 2
    /\ log = <<"w:cr.hseon", "r:hserdy", "w:cfgr", "r:sws", "w:pwr.lpr", "set_freqs">>

(* ---------------------------------------------------------------------- *)
(* C8 - PLL input oscillator started before the PLL is configured         *)
(* ---------------------------------------------------------------------- *)
InputEnable == IF config.mux.source.kind = "HSE" THEN "w:cr.hseon" ELSE "w:cr.hsion"
InputReady == IF config.mux.source.kind = "HSE" THEN "r:hserdy" ELSE "r:hsirdy"

\* C8: for source = PLL(input, target), init sets the input oscillator's
\* enable bit and observes its ready flag before it writes the PLL
\* configuration register and before it sets the PLL enable bit.
C8_InputBeforePll ==
    IsPll =>
        /\ Before(InputEnable, "w:pllcfgr")
        /\ Before(InputReady, "w:pllcfgr")
        /\ Before(InputEnable, "w:cr.pllon")
        /\ Before(InputReady, "w:cr.pllon")

\* What does hold: an external input is enabled and seen ready before the
\* PLL enable bit is set (the configuration write precedes both).
HseBeforePllOn ==
    IsPllHse =>
        /\ Before("w:cr.hseon", "w:cr.pllon")
        /\ Before("r:hserdy", "w:cr.pllon")
        /\ Before("w:pllcfgr", "w:cr.hseon")

(* ---------------------------------------------------------------------- *)
(* C9 - configure, enable, lock, switch                                   *)
(* ---------------------------------------------------------------------- *)
\* C9: in the PLL case the PLL enable bit is set only after pllcfgr has been
\* written and the mux is switched to the PLL (code 3) only after the lock
\* flag has been observed; in the Internal and External cases the mux is
\* switched only after that oscillator's ready flag has been observed.
C9_EnableLockSwitch ==
    /\ IsPll =>
          /\ Before("w:pllcfgr", "w:cr.pllon")
          /\ Before("r:pllrdy", "w:cfgr")
          /\ Before("w:cr.pllon", "r:pllrdy")
          /\ (Logged("w:cfgr") => cfgr.sw = 3)
          /\ (cr.pllon => pllcfgr # PllcfgrReset)
    /\ config.mux.kind = "HSI16" =>
          /\ Before("r:hsirdy", "w:cfgr")
          /\ (Logged("w:cfgr") => cfgr.sw = 1)
    /\ config.mux.kind = "HSE" =>
          /\ Before("r:hserdy", "w:cfgr")
          /\ (Logged("w:cfgr") => cfgr.sw = 2)

C9_Witness ==
    /\ IsPll
    /\ config.mux.source.kind = "HSI16"
    /\ cfgr.sw = 3
    /\ log = <<"w:pllcfgr", "w:cr.pllon", "r:pllrdy", "w:ccipr", "w:cfgr">>

(* ---------------------------------------------------------------------- *)
(* C10 - single publication                                               *)
(* ---------------------------------------------------------------------- *)
Polling == pc \in {"wait_hsi", "wait_hse", "pll_wait_hse", "pll_wait_hse2",
                   "pll_wait", "wait_sws"}

PublishedOnceLast ==
    /\ npub <= 1
    /\ Cardinality(Idx("set_freqs")) = npub
    /\ Done <=> npub = 1
    /\ Failed => npub = 0 /\ clocks = NoClocks
    /\ Polling => npub = 0 /\ clocks = NoClocks
    /\ npub = 1 => log[Len(log)] = "set_freqs" /\ clocks = bus

\* after publication init takes no further step: the plan, the locals and
\* every register init writes stay as they are
NothingAfterPublication ==
    npub = 1 => UNCHANGED <<swvars, cr, pllcfgr, clk48sel, cfgr, lpr>>

\* C10: the plan is published at most once, as the last step: once when
\* init runs to completion, never on a fatal failure or while a poll
\* blocks; once published it is not changed by any later step.
C10_PublishOnce == [] PublishedOnceLast /\ [][NothingAfterPublication]_vars

\* the hardware goes on after init has published
C10_Witness ==
    /\ Done
    /\ npub = 1
    /\ clocks.sys = 144000000
    /\ ~rdy.hsi

(* ---------------------------------------------------------------------- *)
(* C11 - polls without timeout, termination with responding hardware      *)
(* ---------------------------------------------------------------------- *)
\* init is in a poll whose flag does not have the expected value
PollBlocked ==
    \/ pc = "wait_hsi" /\ ~rdy.hsi
    \/ pc \in {"wait_hse", "pll_wait_hse", "pll_wait_hse2"} /\ ~rdy.hse
    \/ pc = "pll_wait" /\ ~rdy.pll
    \/ pc = "wait_sws" /\ sws # sw

\* a step taken while a poll is blocked is the hardware's: init stays where
\* it is, writes no register, raises no error, publishes nothing
BlockedStaysBlocked ==
    PollBlocked => UNCHANGED <<swvars, cr, pllcfgr, clk48sel, cfgr, lpr>>

Terminated == Done \/ Failed

\* C11: while a polled flag does not have the expected value init stays at
\* that poll, writing nothing, raising nothing and publishing nothing; with
\* hardware that eventually raises every polled flag, init eventually
\* terminates, by publishing or in a fatal failure.
C11_PollsAndTermination ==
    /\ [][BlockedStaysBlocked]_vars
    /\ [](PollBlocked => npub = 0 /\ err = "none")
    /\ <>Terminated
    /\ [](Terminated => (Done /\ npub = 1) \/ (Failed /\ err # "none"))

\* init waits for the PLL to lock, the HSE input already seen ready
C11_Witness ==
    /\ PollBlocked
    /\ pc = "pll_wait"
    /\ IsPllHse
    /\ rdy.hse
    /\ cr.pllon

(* ---------------------------------------------------------------------- *)
(* C12 - source selection                                                 *)
(* ---------------------------------------------------------------------- *)
ExpectedCode ==
    CASE config.mux.kind = "HSI16" -> 1
      [] config.mux.kind = "HSE" -> 2
      [] config.mux.kind = "PLL" -> 3

ExpectedSys ==
    CASE config.mux.kind = "HSI16" -> 16000000
      [] config.mux.kind = "HSE" -> config.mux.freq
      [] config.mux.kind = "PLL" -> CfgVcoOutput \div 2

\* C12: Internal publishes 16 MHz with code 1, External(f) publishes f with
\* code 2, PLL publishes vco_output / R with code 3; the code fits in 2 bits
\* and the poll waits for that same code.
C12_SourceSelection ==
    /\ Logged("w:cfgr") => cfgr.sw = ExpectedCode /\ cfgr.sw \in 0..3
    /\ Logged("r:sws") => sws = ExpectedCode /\ sw = ExpectedCode
    /\ Done => clocks.sys = ExpectedSys

C12_Witness ==
    /\ Done
    /\ config.mux.kind = "HSE"
    /\ config.mux.freq = 24000000
    /\ clocks.sys = 24000000
    /\ cfgr.sw = 2
    /\ sws = 2

(* ---------------------------------------------------------------------- *)
(* C13 - truncation of the multiplier for low targets                     *)
(* ---------------------------------------------------------------------- *)
\* target x 2 < vco_input, and the PLL arm has run its checks
LowTarget ==
    /\ IsPll
    /\ ~config.mux.wide
    /\ config.mux.freq * 2 < CfgVcoInput
    /\ pc # "start"

TruncatedToZero ==
    /\ (config.mux.freq * 2) \div CfgVcoInput = 0
    /\ CfgVcoOutput = 0
    /\ Failed
    /\ err = "InvalidVcoOutput"
    /\ log = <<>>
    /\ hwvars = <<cr, rdy, PllcfgrReset, 0, cfgr, sws, FALSE>>
    /\ npub = 0
    /\ clocks = NoClocks

\* C13 as stated: for every PLL input and every target with
\* target x 2 < vco_input, N = 0, vco_output = 0 and init ends in
\* InvalidVcoOutput with no register written and nothing published.
C13_TruncationAnyInput == LowTarget => TruncatedToZero

\* C13 amended: the same for every PLL input whose vco_input lies in
\* [2.66 MHz, 16 MHz]; outside it init ends in InvalidVcoInput before the
\* multiplier is computed.
C13_TruncationValidInput ==
    /\ (LowTarget /\ VcoInputValid) => TruncatedToZero
    /\ (LowTarget /\ ~VcoInputValid) =>
          Failed /\ err = "InvalidVcoInput" /\ log = <<>> /\ npub = 0

C13_Witness ==
    /\ LowTarget
    /\ config.mux.source.kind = "HSI16"
    /\ config.mux.freq = 1000000
    /\ Failed
    /\ err = "InvalidVcoOutput"

(* ---------------------------------------------------------------------- *)
(* C14 - achieved versus requested PLL frequency                          *)
(* ---------------------------------------------------------------------- *)
\* Comparisons with the requested target, a u32 whose bit 31 is
\* config.mux.wide: with the bit set the target is above every achievable
\* output, and 2 x target is above vco_output + vco_input.
MainOutput == RegVcoOutput \div 2

OutputAtMostTarget == config.mux.wide \/ MainOutput <= config.mux.freq

WithinOneStep ==
    /\ ~config.mux.wide
    /\ config.mux.freq * 2 - RegVcoOutput < CfgVcoInput

\* 2 x target is a multiple of vco_input; 2^32 mod v from 2^31 - 1
DoubledTargetMultiple ==
    LET v == CfgVcoInput
        p31 == ((2147483647 % v) + 1) % v
        hi == IF config.mux.wide THEN (2 * p31) % v ELSE 0
    IN (hi + ((config.mux.freq * 2) % v)) % v = 0

OutputIsTarget == ~config.mux.wide /\ MainOutput = config.mux.freq

Is48Example ==
    /\ IsPll
    /\ config.mux.source.kind = "HSI16"
    /\ config.mux.freq = 48000000
    /\ ~config.mux.wide

Example48Holds ==
    /\ (Is48Example /\ pc # "start") => ~Failed \/ err = "LowPowerFrequencyExceeded"
    /\ (Is48Example /\ Logged("w:pllcfgr")) =>
          /\ CfgVcoInput = 4000000
          /\ pllcfgr.plln = 24
          /\ RegVcoOutput = 96000000
          /\ pllcfgr.pllq = 0
    /\ (Is48Example /\ Done) => clocks.sys = 48000000

\* C14: on every solver success the main output does not exceed the target,
\* 2 x target - vco_output < vco_input, and the main output is the target
\* when 2 x target is a multiple of vco_input; PLL(Internal, 48 MHz)
\* succeeds with N = 24, vco_output = 96 MHz, Q = 2 and publishes 48 MHz.
C14_AchievedFrequency ==
    /\ SolverSucceeded =>
          /\ OutputAtMostTarget
          /\ WithinOneStep
          /\ (DoubledTargetMultiple => OutputIsTarget)
    /\ Example48Holds

\* What does hold: the same for targets below 2^31 Hz, whose doubling fits.
AchievedFrequencyNoOverflow ==
    /\ (SolverSucceeded /\ ~config.mux.wide) =>
          /\ OutputAtMostTarget
          /\ WithinOneStep
          /\ (DoubledTargetMultiple => OutputIsTarget)
    /\ Example48Holds

(* ---------------------------------------------------------------------- *)
(* C15 - code tables                                                      *)
(* ---------------------------------------------------------------------- *)
\* the divisor the bus frequency calculation derives from a prescaler code
AhbDecode(code) == IF code = 1 THEN 1 ELSE Shl1(code - 7)
ApbDecode(code) == IF code = 1 THEN 1 ELSE Shl1(code - 3)

DivisorCodesRoundTrip ==
    /\ \A v \in {2, 4, 6, 8} :
          /\ pllr_flag(v) \in 0..3 /\ 2 * (pllr_flag(v) + 1) = v
          /\ pllq_flag(v) \in 0..3 /\ 2 * (pllq_flag(v) + 1) = v
    /\ SolverSucceeded =>
          /\ 2 * (pllcfgr.pllr + 1) = 2
          /\ 2 * (pllcfgr.pllq + 1) = CfgQ

PrescalerCodesInjective ==
    /\ Cardinality({AHBCode(p) : p \in AHBPrescaler}) = 9
    /\ \A p \in AHBPrescaler : AHBCode(p) \in 0..15
    /\ Cardinality({APBCode(p) : p \in APBPrescaler}) = 5
    /\ \A p \in APBPrescaler : APBCode(p) \in 0..7
    /\ AHBCode("NotDivided") = APBCode("NotDivided")

ApbCodesDecode ==
    Logged("w:cfgr") =>
        /\ ApbDecode(cfgr.ppre1) = NominalDiv(config.apb1_pre)
        /\ ApbDecode(cfgr.ppre2) = NominalDiv(config.apb2_pre)

AhbCodeDecodes ==
    Logged("w:cfgr") => AhbDecode(cfgr.hpre) = NominalDiv(config.ahb_pre)

\* C15: the R/Q codes c are distinct 2-bit values with 2 x (c + 1) the
\* divisor; the 9 AHB codes are distinct 4-bit values, the 5 APB codes
\* distinct 3-bit values, NotDivided has the same code in both; decoding a
\* prescaler code with the bus frequency formula gives the variant's
\* nominal divisor.
C15_CodeTables ==
    /\ DivisorCodesRoundTrip
    /\ PrescalerCodesInjective
    /\ ApbCodesDecode
    /\ AhbCodeDecodes

\* What does hold: everything but the decoding of the AHB codes from Div64.
CodeTablesButAhbDecode ==
    /\ DivisorCodesRoundTrip
    /\ PrescalerCodesInjective
    /\ ApbCodesDecode
    /\ (config.ahb_pre \in {"NotDivided", "Div2", "Div4", "Div8", "Div16"}
           => AhbCodeDecodes)

(* ---------------------------------------------------------------------- *)
(* C16 - arithmetic stays within its integer width                        *)
(* ---------------------------------------------------------------------- *)
\* the PLL arm has evaluated target_freq.0 * pllr / vco_input.0
MultiplierComputed == IsPll /\ VcoInputValid /\ pc # "start"

DividedPrescalers(S) == S \ {"NotDivided"}

ShiftsFit ==
    /\ \A p \in DividedPrescalers(AHBPrescaler) :
          /\ AHBCode(p) - 7 \in 0..31
          /\ Shl1(AHBCode(p) - 7) > 0
    /\ \A p \in DividedPrescalers(APBPrescaler) :
          /\ APBCode(p) - 3 \in 0..7
          /\ Shl1(APBCode(p) - 3) \in 1..255

\* C16: every intermediate value of init fits the width it is computed in
\* (target x R and vco_input x N in 32 bits, the shift amounts and the 8-bit
\* APB divisors, the doubled APB timer value) and no division is by zero.
C16_NoOverflow ==
    /\ MultiplierComputed =>
          /\ ~MulOverflows(config.mux)
          /\ CfgVcoInput > 0
          /\ CfgVcoOutput <= config.mux.freq * 2
    /\ err # "ArithmeticOverflow"
    /\ ShiftsFit
    /\ BusComputed =>
          /\ bus.apb1_tim <= bus.ahb1
          /\ bus.apb2_tim <= bus.ahb1
          /\ bus.ahb1 <= sys_clk

\* What does hold: everything but the doubling of a target with bit 31 set.
NoOverflowBelowBit31 ==
    /\ (MultiplierComputed /\ ~config.mux.wide) =>
          /\ CfgVcoInput > 0
          /\ CfgVcoOutput <= config.mux.freq * 2
    /\ ~config.mux.wide => err # "ArithmeticOverflow"
    /\ ShiftsFit
    /\ BusComputed =>
          /\ bus.apb1_tim <= bus.ahb1
          /\ bus.apb2_tim <= bus.ahb1
          /\ bus.ahb1 <= sys_clk

(* ---------------------------------------------------------------------- *)
(* C17 - writes to the oscillator control register                        *)
(* ---------------------------------------------------------------------- *)
EnableBits == {"hsion", "hseon", "pllon"}

\* a step never clears an enable bit that was set
EnableBitsKept == \A b \in EnableBits : cr[b] => cr'[b]

PllInputStillOn ==
    (IsPll /\ Logged("w:cr.pllon")) =>
        IF config.mux.source.kind = "HSE" THEN cr.hseon ELSE cr.hsion

\* C17: a write to the oscillator control register sets the enable bit(s)
\* of its step and leaves the other oscillators' enable bits as they were;
\* after the PLL is enabled its input oscillator's enable bit is still set.
C17_CrWritesKeepOthers == [][EnableBitsKept]_vars /\ []PllInputStillOn

\* What does hold: with an external input, hseon is still set once the PLL
\* has been enabled, and every write sets the bit(s) of its step.
HseInputStillOn ==
    /\ (IsPllHse /\ Logged("w:cr.pllon")) => cr.hseon /\ cr.pllon
    /\ (~IsPll /\ Logged("w:cr.hsion")) => cr.hsion
    /\ (~IsPll /\ Logged("w:cr.hseon")) => cr.hseon

(* ---------------------------------------------------------------------- *)
(* C18 - reachable PLL outcomes                                           *)
(* ---------------------------------------------------------------------- *)
GoodVcoOutputs == {96000000, 192000000, 288000000}
GoodSysFreqs == {48000000, 96000000, 144000000}

\* the PLL arm is past its checks and the configuration write
PllDecided == IsPll /\ pc \notin {"start", "pll_cfg"}

SuccessOutcomes ==
    SolverSucceeded =>
        /\ CfgQ \in {2, 4, 6}
        /\ RegVcoOutput \in GoodVcoOutputs
        /\ (sw = 3 => sys_clk \in GoodSysFreqs)
        /\ (Done => clocks.sys \in GoodSysFreqs)

TargetIsGoodSysFreq == ~config.mux.wide /\ config.mux.freq \in GoodSysFreqs

\* C18 as stated: on success Q is 2, 4 or 6, vco_output is 96, 192 or
\* 288 MHz and the published system frequency 48, 96 or 144 MHz; every
\* other target ends in a fatal failure.
C18_OnlyThreeTargets ==
    /\ SuccessOutcomes
    /\ (PllDecided /\ ~TargetIsGoodSysFreq) => Failed

\* C18 amended: the same outcomes on success; a configuration fails when
\* its vco_input is out of range or its computed vco_output is not 96, 192
\* or 288 MHz, whatever the target (a target of 49 MHz on the internal
\* input succeeds and publishes 48 MHz).
C18_ThreeOutcomes ==
    /\ SuccessOutcomes
    /\ (PllDecided /\ ~VcoInputValid) => Failed /\ err = "InvalidVcoInput"
    /\ (PllDecided /\ VcoInputValid /\ CfgVcoOutput \notin GoodVcoOutputs)
          => Failed /\ err \in SolverErrors \cup {"ArithmeticOverflow"}

C18_Witness ==
    /\ SolverSucceeded
    /\ Done
    /\ CfgQ = 6
    /\ RegVcoOutput = 288000000
    /\ clocks.sys = 144000000

(* ---------------------------------------------------------------------- *)
(* C19 - the multiplier and input-divider fields                          *)
(* ---------------------------------------------------------------------- *)
CfgN == (config.mux.freq * 2) \div CfgVcoInput

\* C19: on every successful PLL configuration 6 <= N <= 126, so the
\* conversion of N to the field type never fails and the 7-bit field holds
\* N itself; the input-divider field written is 3.
C19_MultiplierField ==
    /\ SolverSucceeded =>
          /\ CfgN >= 6 /\ CfgN <= 126
          /\ CfgN <= 255
          /\ pllcfgr.plln = CfgN
          /\ pllcfgr.pllm = 3
    /\ err # "TryFromIntError"

C19_Witness ==
    /\ SolverSucceeded
    /\ CfgN = 100
    /\ pllcfgr.plln = 100
    /\ pllcfgr.pllm = 3

(* ---------------------------------------------------------------------- *)
(* C20 - the published plan                                               *)
(* ---------------------------------------------------------------------- *)
PlanOrdered ==
    Done =>
        /\ clocks.ahb1 = clocks.ahb2
        /\ clocks.apb1 <= clocks.apb1_tim
        /\ clocks.apb1_tim <= clocks.ahb1
        /\ clocks.apb2 <= clocks.apb2_tim
        /\ clocks.apb2_tim <= clocks.ahb1
        /\ clocks.ahb1 <= clocks.sys

LowPowerPublishedOnlyExternal ==
    (Done /\ config.low_power_run) =>
        /\ config.mux.kind = "HSE"
        /\ config.mux.freq <= 2000000

LowPowerEnd == Terminated /\ config.low_power_run

\* C20 as stated: the published values are ordered apb <= apb_tim <= ahb1
\* = ahb2 <= sys; with low_power_run a plan is published only for
\* External(f), f <= 2 MHz, and Internal and every PLL source end in
\* LowPowerFrequencyExceeded.
C20_PlanAndLowPower ==
    /\ PlanOrdered
    /\ LowPowerPublishedOnlyExternal
    /\ (LowPowerEnd /\ config.mux.kind \in {"HSI16", "PLL"})
          => Failed /\ err = "LowPowerFrequencyExceeded"

\* C20 amended: as stated, but a PLL source ends in
\* LowPowerFrequencyExceeded or, before that, in a failure of the PLL arm.
C20_PlanAndLowPowerOrSolver ==
    /\ PlanOrdered
    /\ LowPowerPublishedOnlyExternal
    /\ (LowPowerEnd /\ config.mux.kind = "HSI16")
          => Failed /\ err = "LowPowerFrequencyExceeded"
    /\ (LowPowerEnd /\ config.mux.kind = "PLL")
          => /\ Failed
             /\ err \in SolverErrors \cup {"ArithmeticOverflow", "LowPowerFrequencyExceeded"}
             /\ (SolverSucceeded => err = "LowPowerFrequencyExceeded")

C20_Witness ==
    /\ Done
    /\ config.low_power_run
    /\ config.mux.freq = 1000000
    /\ config.ahb_pre = "Div512"
    /\ config.apb1_pre = "Div16"
    /\ clocks.apb1_tim < clocks.ahb1
    /\ clocks.ahb1 < clocks.sys

====
